---- MODULE Spec2Model ----
(***************************************************************************)
(* Realtime collaborative whiteboard: the socket.io relay (server.js) and  *)
(* the React client (App.jsx: drawing engine, undo history, remote         *)
(* operation applier), modelled as one state machine.                      *)
(*                                                                         *)
(* Library behaviour the model relies on (socket.io 4, not repository      *)
(* code): socket.join(k) adds the socket to room k; socket.to(k).emit      *)
(* sends to the sockets in room k except the emitting socket; io.emit      *)
(* sends to every connected socket; a connection carries messages in       *)
(* order; an exception thrown by an event listener is uncaught and ends    *)
(* the node process.  Room ids are user-entered strings, taken distinct    *)
(* from socket ids.                                                        *)
(***************************************************************************)
EXTENDS Integers, Sequences, FiniteSets, TLC

\* ------------------------------------------------------------------ universe
Client == {"A", "B", "C"}
Room == {"demo1", "demo2"}
Undef == "undefined"
RoomKey == Room \cup {Undef}
NoNum == 0 - 1
NoUser == <<"none", 0>>

\* Bounds of the relay specifications.
MaxStrokeMsgs == 3
MaxDrops == 1
\* Kinds of user input that the specifications ration.
InputKind == {"act", "save", "remote", "undo"}

\* ------------------------------------------------------------------ payloads
\* A payload is a flat record; a field a JavaScript object does not have holds
\* Undef / NoNum / NoUser.  kind: "absent" (undefined), "str" (a bare
\* string, in val), "obj".
BaseData ==
  [kind |-> "obj", val |-> Undef, roomId |-> Undef, userId |-> NoUser,
   x |-> NoNum, y |-> NoNum, color |-> Undef, size |-> NoNum,
   fontSize |-> NoNum, tool |-> Undef, text |-> Undef]
AbsentData == [BaseData EXCEPT !.kind = "absent"]
StrData(v) == [BaseData EXCEPT !.kind = "str", !.val = v]
ObjData(r) == [BaseData EXCEPT !.roomId = r]
UserData(id) == [BaseData EXCEPT !.userId = id]

JoinEvent == "join-room"
StrokeEvents == {"start-draw", "drawing", "end-draw"}
ShapeEvents == {"start-shape", "drawing-shape", "end-shape"}
\* Handlers of the form socket.to(data.roomId).emit(ev, data).
VerbatimEvents == StrokeEvents \cup ShapeEvents \cup {"draw-text"}
\* Handlers that replace the payload by {userId: socket.id}.
UserIdEvents == {"undo", "redo"}
\* Every handler that reads data.roomId.
PropertyEvents ==
  VerbatimEvents \cup UserIdEvents \cup {"cursor-move", "clear-canvas"}
RelayEvents == PropertyEvents \cup {"clear"}
InboundEvents == RelayEvents \cup {JoinEvent}

VARIABLES
  serverUp,    \* the node process is running
  connected,   \* clients whose socket the server holds
  sid,         \* per client: number of the connection it is on
  rooms,       \* socket.io adapter: room key -> member sockets
  inbox,       \* per client: messages in flight to the server, in order
  outbox,      \* per client: messages in flight to the client, in order
  strokeSent,  \* history variable: stroke messages a raw client emitted
  strokeRecv,  \* history variable: stroke messages a raw client received
  owed,        \* history variable: per client, the logged stroke messages
               \* (by seq) relayed while the client was in their room
  drops,       \* history variable: number of disconnects so far
  last,        \* history variable: the step just taken
  \* Per client, the state of App.jsx:
  roomId,          \* useState roomId
  joined,          \* useState joined (the canvas is mounted when joined)
  color,           \* useState color
  size,            \* useState size
  tool,            \* useState tool
  canUndo,         \* useState canUndo
  textInput,       \* useState textInput
  textPosition,    \* useState textPosition
  isPlacingText,   \* useState isPlacingText
  showTextMarker,  \* useState showTextMarker
  history,         \* historyRef.current: data URLs, oldest first
  isDrawing,       \* isDrawingRef.current
  startPos,        \* startPosRef.current
  tempCanvas,      \* tempCanvasRef.current: a copy of the canvas, or NoCanvas
  canvas,          \* the raster of the canvas element, as the set of ink on it
  path,            \* the 2d context's current path
  strokeStyle,     \* the 2d context's strokeStyle
  lineWidth,       \* the 2d context's lineWidth
  pendingImg,      \* images of restoreCanvas whose onload has not run
  timers,          \* pending setTimeout callbacks of handleJoin
  initialized,     \* history variable: resizeCanvas has run on the canvas
  pushed,          \* history variable: snapshots pushed and not popped
                   \* since the last resize, never evicted
  pops,            \* history variable: undo pops since the last resize
  sendBuffer,      \* socket.io-client: packets emitted while disconnected
  joining,         \* room ids held by the pending connectHandlers of handleJoin
  used             \* history variable: per kind of input, how many were made

serverVars == <<serverUp, connected, sid, rooms>>
netVars == <<inbox, outbox>>
relayGhost == <<strokeSent, strokeRecv, owed, drops>>
uiVars == <<roomId, joined, color, size, tool, textInput, textPosition,
            isPlacingText, showTextMarker, timers>>
histVars == <<history, canUndo, pushed, pops, initialized>>
drawVars == <<isDrawing, startPos, tempCanvas>>
ctxVars == <<canvas, path, strokeStyle, lineWidth, pendingImg>>
clientVars == <<uiVars, histVars, drawVars, ctxVars>>
linkVars == <<sendBuffer, joining>>
vars == <<serverVars, netVars, relayGhost, last, clientVars, linkVars, used>>

ConnId(c) == <<c, sid[c]>>
\* A message in flight.  ev and data are what the wire carries; from, seq,
\* sentEv and sentData are history fields: the emitting connection, the
\* position among its logged stroke messages, and the event and payload as
\* the client emitted them.
Msg(ev, data, c, n) ==
  [ev |-> ev, data |-> data, from |-> ConnId(c), seq |-> n,
   sentEv |-> ev, sentData |-> data]
NoMsg ==
  [ev |-> "none", data |-> AbsentData, from |-> NoUser, seq |-> 0,
   sentEv |-> "none", sentData |-> AbsentData]
\* The step just taken: the operation, the client it belongs to and, for a
\* server handler, the message handled.
Step(op, c, m) == [op |-> op, who |-> c, msg |-> m, n |-> 0, prev |-> "none"]
\* A step of client c's user interface; n: the length of its undo history
\* before the step.
UiStep(op, c) ==
  [op |-> op, who |-> c, msg |-> NoMsg, n |-> Len(history[c]), prev |-> "none"]
\* A socket listener of client c has run on a message: op if the listener
\* applied it, "ignored" if its guard returned early; prev: the step before.
RemoteStep(op, c, applied) ==
  [op |-> IF applied THEN op ELSE "ignored", who |-> c, msg |-> NoMsg,
   n |-> Len(history[c]), prev |-> last.op]

\* ------------------------------------------------------------------ server
\* data.roomId as JavaScript evaluates it on a non-null value.
RoomIdOf(data) == IF data.kind = "obj" THEN data.roomId ELSE Undef

\* The value itself used as a room key (join-room, clear).  An object used
\* as a key names a room no other value names.
DirectKey(data) ==
  CASE data.kind = "absent" -> Undef
    [] data.kind = "str" -> data.val
    [] OTHER -> "[object]"

\* data.roomId on undefined throws a TypeError.
Throws(ev, data) == ev \in PropertyEvents /\ data.kind = "absent"

TargetKey(ev, data) ==
  IF ev \in {"clear", JoinEvent} THEN DirectKey(data) ELSE RoomIdOf(data)

\* Faulty variant: the room is ignored, as with socket.broadcast.emit.
Members_AnyRoom(rm, key) == UNION {rm[k] : k \in DOMAIN rm}
\* Faulty variant: an empty or unknown room falls back to every socket.
Members_AllIfEmpty(rm, key) ==
  IF key \in DOMAIN rm /\ rm[key] # {} THEN rm[key] ELSE connected
Members(rm, key) == IF key \in DOMAIN rm THEN rm[key] ELSE {}

\* Faulty variant: io.to(key), which keeps the emitting socket.
Recipients_WithSender(rm, c, key) == Members(rm, key)
\* socket.to(key): the room's sockets except the emitting one.
Recipients(rm, c, key) == Members(rm, key) \ {c}

\* The payload the handler of ev passes to emit.
Forwarded(c, ev, data) ==
  CASE ev \in VerbatimEvents -> data
    [] ev = "clear" -> data
    [] ev = "clear-canvas" -> AbsentData
    [] ev = "cursor-move" ->
         [BaseData EXCEPT !.userId = ConnId(c), !.x = data.x, !.y = data.y,
                          !.color = data.color]
    [] ev \in UserIdEvents -> UserData(ConnId(c))
    [] ev = JoinEvent -> UserData(ConnId(c))
    [] OTHER -> data

OutEvent(ev) == IF ev = JoinEvent THEN "user-joined" ELSE ev

\* socket.join(roomId)
JoinRoom(rm, c, key) ==
  IF key \in DOMAIN rm THEN [rm EXCEPT ![key] = @ \cup {c}] ELSE rm

\* Faulty variant: the message overtakes what is queued.
Send_Overtaking(ob, to, m) ==
  [r \in Client |-> IF r \in to THEN <<m>> \o ob[r] ELSE ob[r]]
\* Appends message m to the queue of every client in to.
Send(ob, to, m) == [r \in Client |-> IF r \in to THEN Append(ob[r], m) ELSE ob[r]]

\* The server takes the next message of connection c and runs its handler.
ServerHandle(c) ==
  /\ serverUp
  /\ c \in connected
  /\ inbox[c] # <<>>
  /\ LET m == Head(inbox[c])
         rm == IF m.ev = JoinEvent
                 THEN JoinRoom(rooms, c, DirectKey(m.data)) ELSE rooms
         to == Recipients(rm, c, TargetKey(m.ev, m.data))
         out == [m EXCEPT !.ev = OutEvent(m.ev),
                          !.data = Forwarded(c, m.ev, m.data)]
     IN IF Throws(m.ev, m.data)
          THEN /\ serverUp' = FALSE
               /\ connected' = {}
               /\ rooms' = [k \in RoomKey |-> {}]
               /\ inbox' = [r \in Client |-> <<>>]
               /\ outbox' = [r \in Client |-> <<>>]
               /\ UNCHANGED sid
          ELSE /\ rooms' = rm
               /\ inbox' = [inbox EXCEPT ![c] = Tail(@)]
               /\ outbox' = IF m.ev \in InboundEvents
                              THEN Send(outbox, to, out) ELSE outbox
               /\ UNCHANGED <<serverUp, connected, sid>>
  /\ LET m == Head(inbox[c])
     IN owed' = IF m.seq > 0 /\ ~Throws(m.ev, m.data)
                  THEN [b \in Client |->
                          IF b # c /\ m.data.roomId \in Room /\ b \in rooms[m.data.roomId]
                            THEN owed[b] \cup {m.seq} ELSE owed[b]]
                  ELSE owed
  /\ last' = Step("handle", c, Head(inbox[c]))
  /\ UNCHANGED <<linkVars, strokeSent, strokeRecv, drops, clientVars>>

\* Faulty variant: the socket stays in its rooms.
LeaveAll_Stay(rm, c) == rm
\* The adapter on disconnect: the socket leaves every room.
LeaveAll(rm, c) == [k \in RoomKey |-> rm[k] \ {c}]
\* Faulty variant: only sockets that share a room are told.
Everyone_RoomMates(conn) ==
  {d \in conn : \E k \in RoomKey : \E c \in Client \ conn : {c, d} \subseteq rooms[k]}
\* io.emit: every socket the server holds.
Everyone(conn) == conn

\* The server's disconnect handler for c: the library has removed the socket
\* from its rooms; io.emit("user-left") goes to every connected socket.
\* last.n: the number of rooms the socket was in.
ServerDisconnect(c) ==
  /\ serverUp
  /\ c \in connected
  /\ drops < MaxDrops
  /\ drops' = drops + 1
  /\ connected' = connected \ {c}
  /\ rooms' = LeaveAll(rooms, c)
  /\ inbox' = [inbox EXCEPT ![c] = <<>>]
  /\ outbox' = Send([outbox EXCEPT ![c] = <<>>], Everyone(connected \ {c}),
                    Msg("user-left", UserData(ConnId(c)), c, 0))
  /\ last' = [Step("disconnect", c, NoMsg) EXCEPT
                !.n = Cardinality({k \in RoomKey : c \in rooms[k]})]
  /\ UNCHANGED <<linkVars, serverUp, sid, strokeSent, strokeRecv, owed,
                 clientVars>>

\* ------------------------------------------------------------------ client
TOOLS == {"brush", "eraser", "text", "line", "rectangle", "circle", "arrow"}
ShapeTools == {"line", "rectangle", "circle", "arrow"}
DefaultColor == "#1e293b"
PresetColor == {DefaultColor, "#ef4444"}
EraserColor == "#ffffff"
DefaultSize == 4
SizeChoice == {DefaultSize, 8}
EraserFactor == 3
FontFactor == 4
RemoteDefaultSize == 3
RemoteDefaultColor == "#000"
ContextDefaultStyle == "#000000"
ContextDefaultWidth == 1
HistLimit == 30
\* Pointer positions, in canvas coordinates (devicePixelRatio 1).
Pos == {<<10, 10>>, <<50, 50>>}
NoPos == <<0, 0>>
TextChoice == {"hi"}

\* Ink on the raster: a stroked segment, a stroked shape or a filled text.
\* The raster is the set of ink applied since it was last cleared; the order
\* of application is not kept.
Ink(k, a, b, col, w, txt) ==
  [k |-> k, a |-> a, b |-> b, color |-> col, w |-> w, text |-> txt]
Before(a, b) == a[1] < b[1] \/ (a[1] = b[1] /\ a[2] <= b[2])
\* A stroked straight segment looks the same from either end.
SegInk(a, b, col, w) ==
  IF Before(a, b) THEN Ink("seg", a, b, col, w, "") ELSE Ink("seg", b, a, col, w, "")
Blank == {}
\* Faulty variant: clearing a blank raster leaves a mark.
ClearRect_Toggling(cv) == IF cv = Blank THEN {SegInk(NoPos, NoPos, "", 0)} ELSE Blank
\* ctx.clearRect over the whole canvas.
ClearRect(cv) == Blank

\* tempCanvasRef.current before any shape was started.
NoCanvas == {Ink("null", NoPos, NoPos, "", 0, "")}

\* ctx.stroke(): every segment of the current path, in the current style.
\* lineCap is round, so a segment of length zero paints a dot.
StrokePath(pth, col, w) ==
  {SegInk(pth[i], pth[i + 1], col, w) : i \in 1..(Len(pth) - 1)}

\* ctx.closePath(): a subpath of two or more points gets a closing segment
\* back to its first point, where the next subpath starts.
ClosePath(pth) == IF Len(pth) >= 2 THEN Append(pth, pth[1]) ELSE pth

\* The shape preview handlePointerMove draws from the anchor to the pointer.
ShapeInk(t, a, b, col, w) ==
  IF t = "line" THEN SegInk(a, b, col, w) ELSE Ink(t, a, b, col, w, "")
\* The path the preview leaves in the context.  The arc of a circle and the
\* head of an arrow are not kept as path points.
ShapePath(t, a, b, pth) ==
  CASE t = "line" -> <<a, b>>
    [] t = "rectangle" -> pth
    [] OTHER -> <<>>

\* Faulty variant: the newest snapshot is dropped instead of the oldest.
SaveCanvas_DropNewest(h, cv) ==
  IF Len(h) + 1 > HistLimit THEN h ELSE Append(h, cv)
\* Faulty variant: the limit is tested before the push.
SaveCanvas_OffByOne(h, cv) ==
  IF Len(h) > HistLimit THEN Tail(Append(h, cv)) ELSE Append(h, cv)
\* saveCanvas on a mounted canvas showing cv: the new historyRef.current.
SaveCanvas(h, cv) ==
  IF Len(Append(h, cv)) > HistLimit THEN Tail(Append(h, cv)) ELSE Append(h, cv)

RECURSIVE SaveAll(_, _)
SaveAll(h, snaps) ==
  IF snaps = <<>> THEN h ELSE SaveAll(SaveCanvas(h, Head(snaps)), Tail(snaps))

\* The effect of saveCanvas, called once per element of snaps, on client c.
Saved(c, snaps) ==
  /\ history' = [history EXCEPT ![c] = SaveAll(@, snaps)]
  /\ canUndo' = [canUndo EXCEPT ![c] = Len(SaveAll(history[c], snaps)) > 1]
  /\ pushed' = [pushed EXCEPT ![c] = @ \o snaps]
  /\ UNCHANGED <<pops, initialized>>

\* socket.emit(ev, data) by the client's socket: sent when the socket is
\* connected, otherwise kept in the socket's send buffer.  A message emitted
\* while disconnected is marked with seq = NoNum.
Emit(c, ev, data) ==
  IF c \in connected
    THEN /\ inbox' = [inbox EXCEPT ![c] = Append(@, Msg(ev, data, c, 0))]
         /\ UNCHANGED sendBuffer
    ELSE /\ sendBuffer' = [sendBuffer EXCEPT ![c] = Append(@, Msg(ev, data, c, NoNum))]
         /\ UNCHANGED inbox

DrawPayload(c, p, col, w) ==
  [BaseData EXCEPT !.roomId = roomId[c], !.x = p[1], !.y = p[2],
                   !.color = col, !.size = w, !.tool = tool[c]]

\* Faulty variant: the guard lets the last snapshot be popped.
UndoAllowed_Always(h) == Len(h) >= 1
\* handleUndo's guard.
UndoAllowed(h) == Len(h) > 1

\* Faulty variant: the oldest snapshot is removed instead of the newest.
Front_DropOldest(h) == Tail(h)
\* The history after historyRef.current.pop().
Front(h) == SubSeq(h, 1, Len(h) - 1)

\* handleUndo
HandleUndo(c) ==
  /\ joined[c]
  /\ IF UndoAllowed(history[c])
       THEN /\ history' = [history EXCEPT ![c] = Front(@)]
            /\ pendingImg' = [pendingImg EXCEPT ![c] =
                 IF Len(history[c]) > 1 THEN Append(@, history[c][Len(history[c]) - 1])
                                        ELSE @]
            /\ canUndo' = [canUndo EXCEPT ![c] = Len(history[c]) - 1 > 1]
            /\ pushed' = [pushed EXCEPT ![c] = Front(@)]
            /\ pops' = [pops EXCEPT ![c] = @ + 1]
       ELSE UNCHANGED <<history, pendingImg, canUndo, pushed, pops>>
  /\ last' = [UiStep("undo", c) EXCEPT !.prev = last.op]
  /\ UNCHANGED <<linkVars, serverVars, netVars, relayGhost, uiVars, drawVars,
                 initialized,
                 canvas, path, strokeStyle, lineWidth>>

\* img.onload of restoreCanvas: the canvas is cleared and the image drawn.
ImgOnload(c) ==
  /\ pendingImg[c] # <<>>
  /\ canvas' = [canvas EXCEPT ![c] = Head(pendingImg[c])]
  /\ pendingImg' = [pendingImg EXCEPT ![c] = Tail(@)]
  /\ last' = UiStep("onload", c)
  /\ UNCHANGED <<linkVars, serverVars, netVars, relayGhost, uiVars, histVars,
                 drawVars,
                 path, strokeStyle, lineWidth>>

\* resizeCanvas on a mounted canvas: setting the size clears the raster and
\* resets the context; the history restarts with the blank snapshot.
ResizeCanvas(c) ==
  /\ canvas' = [canvas EXCEPT ![c] = Blank]
  /\ path' = [path EXCEPT ![c] = <<>>]
  /\ strokeStyle' = [strokeStyle EXCEPT ![c] = ContextDefaultStyle]
  /\ lineWidth' = [lineWidth EXCEPT ![c] = ContextDefaultWidth]
  /\ history' = [history EXCEPT ![c] = SaveCanvas(<<>>, Blank)]
  /\ canUndo' = [canUndo EXCEPT ![c] = Len(SaveCanvas(<<>>, Blank)) > 1]
  /\ pushed' = [pushed EXCEPT ![c] = <<Blank>>]
  /\ pops' = [pops EXCEPT ![c] = 0]
  /\ initialized' = [initialized EXCEPT ![c] = TRUE]

\* The window's resize listener.
WindowResize(c) ==
  /\ joined[c]
  /\ ResizeCanvas(c)
  /\ last' = UiStep("resize", c)
  /\ UNCHANGED <<linkVars, serverVars, netVars, relayGhost, uiVars, drawVars,
                 pendingImg>>

\* The setTimeout callback of handleJoin.
TimerFires(c) ==
  /\ timers[c] > 0
  /\ joined[c]
  /\ timers' = [timers EXCEPT ![c] = @ - 1]
  /\ ResizeCanvas(c)
  /\ last' = UiStep("timer", c)
  /\ UNCHANGED <<linkVars, serverVars, netVars, relayGhost, drawVars,
                 pendingImg, roomId,
                 joined, color, size, tool, textInput, textPosition,
                 isPlacingText, showTextMarker>>

\* setTool(t) and the effect that runs on a tool change.
SetTool(c, t) ==
  /\ joined[c]
  /\ tool[c] # t
  /\ tool' = [tool EXCEPT ![c] = t]
  /\ IF t # "text" /\ showTextMarker[c]
       THEN /\ showTextMarker' = [showTextMarker EXCEPT ![c] = FALSE]
            /\ isPlacingText' = [isPlacingText EXCEPT ![c] = FALSE]
            /\ textInput' = [textInput EXCEPT ![c] = ""]
       ELSE UNCHANGED <<showTextMarker, isPlacingText, textInput>>
  /\ last' = UiStep("tool", c)
  /\ UNCHANGED <<linkVars, serverVars, netVars, relayGhost, histVars,
                 drawVars, ctxVars,
                 roomId, joined, color, size, textPosition, timers>>

SetColor(c, col) ==
  /\ joined[c]
  /\ tool[c] # "eraser"
  /\ color[c] # col
  /\ color' = [color EXCEPT ![c] = col]
  /\ last' = UiStep("color", c)
  /\ UNCHANGED <<linkVars, serverVars, netVars, relayGhost, histVars,
                 drawVars, ctxVars,
                 roomId, joined, size, tool, textInput, textPosition,
                 isPlacingText, showTextMarker, timers>>

SetSize(c, n) ==
  /\ joined[c]
  /\ tool[c] # "text"
  /\ size[c] # n
  /\ size' = [size EXCEPT ![c] = n]
  /\ last' = UiStep("size", c)
  /\ UNCHANGED <<linkVars, serverVars, netVars, relayGhost, histVars,
                 drawVars, ctxVars,
                 roomId, joined, color, tool, textInput, textPosition,
                 isPlacingText, showTextMarker, timers>>

LocalStyle(c) == IF tool[c] = "eraser" THEN EraserColor ELSE color[c]
LocalWidth(c) == IF tool[c] = "eraser" THEN size[c] * EraserFactor ELSE size[c]

\* handlePointerDown with the text tool: the placement point is taken.
PointerDownText(c, p) ==
  /\ joined[c]
  /\ tool[c] = "text"
  /\ textPosition' = [textPosition EXCEPT ![c] = p]
  /\ isPlacingText' = [isPlacingText EXCEPT ![c] = TRUE]
  /\ showTextMarker' = [showTextMarker EXCEPT ![c] = TRUE]
  /\ last' = UiStep("down-text", c)
  /\ UNCHANGED <<linkVars, serverVars, netVars, relayGhost, histVars,
                 drawVars, ctxVars,
                 roomId, joined, color, size, tool, textInput, timers>>

\* handlePointerDown with any other tool.
PointerDown(c, p) ==
  /\ joined[c]
  /\ tool[c] # "text"
  /\ isDrawing' = [isDrawing EXCEPT ![c] = TRUE]
  /\ startPos' = [startPos EXCEPT ![c] = p]
  /\ path' = [path EXCEPT ![c] = <<p>>]
  /\ strokeStyle' = [strokeStyle EXCEPT ![c] = LocalStyle(c)]
  /\ lineWidth' = [lineWidth EXCEPT ![c] = LocalWidth(c)]
  /\ tempCanvas' = [tempCanvas EXCEPT ![c] =
                      IF tool[c] \in ShapeTools THEN canvas[c] ELSE @]
  /\ Emit(c, "start-draw", DrawPayload(c, p, LocalStyle(c), LocalWidth(c)))
  /\ last' = UiStep("down", c)
  /\ UNCHANGED <<joining, serverVars, outbox, relayGhost, uiVars, histVars,
                 canvas,
                 pendingImg>>

\* handlePointerMove
PointerMove(c, p) ==
  /\ joined[c]
  /\ isDrawing[c]
  /\ IF tool[c] \in ShapeTools
       THEN /\ canvas' = [canvas EXCEPT ![c] =
                 (IF tempCanvas[c] # NoCanvas THEN tempCanvas[c] ELSE @)
                   \cup {ShapeInk(tool[c], startPos[c], p, color[c], size[c])}]
            /\ strokeStyle' = [strokeStyle EXCEPT ![c] = color[c]]
            /\ lineWidth' = [lineWidth EXCEPT ![c] = size[c]]
            /\ path' = [path EXCEPT ![c] = ShapePath(tool[c], startPos[c], p, @)]
       ELSE /\ path' = [path EXCEPT ![c] = Append(@, p)]
            /\ strokeStyle' = [strokeStyle EXCEPT ![c] = LocalStyle(c)]
            /\ lineWidth' = [lineWidth EXCEPT ![c] = LocalWidth(c)]
            /\ canvas' = [canvas EXCEPT ![c] =
                 @ \cup StrokePath(Append(path[c], p), LocalStyle(c), LocalWidth(c))]
  /\ Emit(c, "drawing", DrawPayload(c, p, color[c], size[c]))
  /\ last' = UiStep("move", c)
  /\ UNCHANGED <<joining, serverVars, outbox, relayGhost, uiVars, histVars,
                 drawVars,
                 pendingImg>>

\* Faulty variant: the stroke in progress is dropped without a message or a
\* snapshot.
StopDrawing_Discard(c) ==
  /\ joined[c]
  /\ isDrawing[c]
  /\ isDrawing' = [isDrawing EXCEPT ![c] = FALSE]
  /\ path' = [path EXCEPT ![c] = ClosePath(@)]
  /\ last' = UiStep("stop", c)
  /\ UNCHANGED <<linkVars, serverVars, netVars, relayGhost, uiVars, histVars,
                 startPos, tempCanvas, canvas, strokeStyle, lineWidth,
                 pendingImg>>

\* stopDrawing while a stroke or shape is in progress: pointerup,
\* pointercancel and pointerleave.
StopDrawing(c) ==
  /\ joined[c]
  /\ isDrawing[c]
  /\ isDrawing' = [isDrawing EXCEPT ![c] = FALSE]
  /\ path' = [path EXCEPT ![c] = ClosePath(@)]
  /\ Emit(c, "end-draw", [BaseData EXCEPT !.roomId = roomId[c], !.tool = tool[c]])
  /\ Saved(c, <<canvas[c]>>)
  /\ last' = UiStep("stop", c)
  /\ UNCHANGED <<joining, serverVars, outbox, relayGhost, uiVars, startPos,
                 tempCanvas,
                 canvas, strokeStyle, lineWidth, pendingImg>>

\* stopDrawing while nothing is in progress: the early return.
StopIdle(c) ==
  /\ joined[c]
  /\ ~isDrawing[c]
  /\ last' = UiStep("stop-idle", c)
  /\ UNCHANGED <<linkVars, serverVars, netVars, relayGhost, uiVars, histVars,
                 drawVars, ctxVars>>

\* onChange of the text input, enabled while a placement is pending.
SetTextInput(c, txt) ==
  /\ joined[c]
  /\ tool[c] = "text"
  /\ isPlacingText[c]
  /\ textInput[c] # txt
  /\ textInput' = [textInput EXCEPT ![c] = txt]
  /\ last' = UiStep("type", c)
  /\ UNCHANGED <<linkVars, serverVars, netVars, relayGhost, histVars,
                 drawVars, ctxVars,
                 roomId, joined, color, size, tool, textPosition, isPlacingText,
                 showTextMarker, timers>>

TextInk(p, col, w, txt) == Ink("text", p, p, col, w, txt)

\* window.devicePixelRatio || 1 of the display a client runs on: "B" is on a
\* high-density display, the others on a standard one.
Dpr(c) == IF c = "B" THEN 2 ELSE 1
\* The point the text input's onKeyDown passes to fillText and emits.
TextPoint(c) == <<textPosition[c][1] * Dpr(c), textPosition[c][2] * Dpr(c)>>

\* onKeyDown of the text input with Enter.
TextEnter(c) ==
  /\ joined[c]
  /\ tool[c] = "text"
  /\ isPlacingText[c]
  /\ textInput[c] # ""
  /\ textPosition[c][1] # 0 /\ textPosition[c][2] # 0
  /\ canvas' = [canvas EXCEPT ![c] =
       @ \cup {TextInk(TextPoint(c), color[c], size[c] * FontFactor, textInput[c])}]
  /\ Saved(c, <<canvas'[c]>>)
  /\ Emit(c, "draw-text",
          [BaseData EXCEPT !.roomId = roomId[c], !.text = textInput[c],
                           !.x = TextPoint(c)[1], !.y = TextPoint(c)[2],
                           !.color = color[c], !.fontSize = size[c] * FontFactor])
  /\ textInput' = [textInput EXCEPT ![c] = ""]
  /\ isPlacingText' = [isPlacingText EXCEPT ![c] = FALSE]
  /\ last' = UiStep("enter", c)
  /\ UNCHANGED <<joining, serverVars, outbox, relayGhost, drawVars, path,
                 strokeStyle,
                 lineWidth, pendingImg, roomId, joined, color, size, tool,
                 textPosition, showTextMarker, timers>>

\* Faulty variant: only the cleared canvas is saved.
ClearSnaps_BlankOnly(cv) == <<ClearRect(cv)>>
\* The canvases clearBoard passes to saveCanvas: before and after clearRect.
ClearSnaps(cv) == <<cv, ClearRect(cv)>>

\* clearBoard
ClearBoard(c) ==
  /\ joined[c]
  /\ Saved(c, ClearSnaps(canvas[c]))
  /\ canvas' = [canvas EXCEPT ![c] = ClearRect(@)]
  /\ showTextMarker' = [showTextMarker EXCEPT ![c] = FALSE]
  /\ isPlacingText' = [isPlacingText EXCEPT ![c] = FALSE]
  /\ textInput' = [textInput EXCEPT ![c] = ""]
  /\ Emit(c, "clear", StrData(roomId[c]))
  /\ last' = UiStep("clear", c)
  /\ UNCHANGED <<joining, serverVars, outbox, relayGhost, drawVars, path,
                 strokeStyle,
                 lineWidth, pendingImg, roomId, joined, color, size, tool,
                 textPosition, timers>>

\* ------------------------------------------------------------------ remote applier
\* The guard of handleRemoteStart, handleRemoteDrawing, handleRemoteEnd and
\* handleRemoteText: !data || data.roomId !== roomId.
\* Faulty variant: the room id of the message is not compared.
RemoteAccepts_Any(c, data) == data.kind = "obj"
RemoteAccepts(c, data) == data.kind = "obj" /\ data.roomId = roomId[c]
\* Faulty variant: the receiver's default pen colour is used.
RemoteColor_Fixed(data) == DefaultColor
RemoteColor(data) == IF data.color = Undef THEN RemoteDefaultColor ELSE data.color
RemoteSize(data) ==
  IF data.size = NoNum \/ data.size = 0 THEN RemoteDefaultSize ELSE data.size
NextIn(c) == Head(outbox[c])
Taken(c) == outbox' = [outbox EXCEPT ![c] = Tail(@)]

\* handleRemoteStart
DeliverStart(c) ==
  /\ joined[c]
  /\ outbox[c] # <<>>
  /\ NextIn(c).ev = "start-draw"
  /\ Taken(c)
  /\ LET d == NextIn(c).data
     IN IF RemoteAccepts(c, d)
          THEN /\ path' = [path EXCEPT ![c] = << <<d.x, d.y>> >>]
               /\ strokeStyle' = [strokeStyle EXCEPT ![c] = RemoteColor(d)]
               /\ lineWidth' = [lineWidth EXCEPT ![c] = RemoteSize(d)]
          ELSE UNCHANGED <<path, strokeStyle, lineWidth>>
  /\ last' = RemoteStep("remote-start", c, RemoteAccepts(c, NextIn(c).data))
  /\ UNCHANGED <<linkVars, serverVars, inbox, relayGhost, uiVars, histVars,
                 drawVars,
                 canvas, pendingImg>>

\* handleRemoteDrawing
DeliverDrawing(c) ==
  /\ joined[c]
  /\ outbox[c] # <<>>
  /\ NextIn(c).ev = "drawing"
  /\ Taken(c)
  /\ LET d == NextIn(c).data
     IN IF RemoteAccepts(c, d)
          THEN /\ path' = [path EXCEPT ![c] = Append(@, <<d.x, d.y>>)]
               /\ strokeStyle' = [strokeStyle EXCEPT ![c] = RemoteColor(d)]
               /\ lineWidth' = [lineWidth EXCEPT ![c] = RemoteSize(d)]
               /\ canvas' = [canvas EXCEPT ![c] =
                    @ \cup StrokePath(Append(path[c], <<d.x, d.y>>),
                                      RemoteColor(d), RemoteSize(d))]
          ELSE UNCHANGED <<path, strokeStyle, lineWidth, canvas>>
  /\ last' = RemoteStep("remote-drawing", c, RemoteAccepts(c, NextIn(c).data))
  /\ UNCHANGED <<linkVars, serverVars, inbox, relayGhost, uiVars, histVars,
                 drawVars,
                 pendingImg>>

\* Faulty variant: the receiver passes the end-draw on to its own socket.
DeliverEnd_Echo(c) ==
  /\ joined[c]
  /\ outbox[c] # <<>>
  /\ NextIn(c).ev = "end-draw"
  /\ Taken(c)
  /\ path' = [path EXCEPT ![c] =
                IF RemoteAccepts(c, NextIn(c).data) THEN ClosePath(@) ELSE @]
  /\ Emit(c, "end-draw", NextIn(c).data)
  /\ last' = RemoteStep("remote-end", c, RemoteAccepts(c, NextIn(c).data))
  /\ UNCHANGED <<joining, serverVars, relayGhost, uiVars, histVars, drawVars,
                 canvas, strokeStyle, lineWidth, pendingImg>>

\* handleRemoteEnd
DeliverEnd(c) ==
  /\ joined[c]
  /\ outbox[c] # <<>>
  /\ NextIn(c).ev = "end-draw"
  /\ Taken(c)
  /\ path' = [path EXCEPT ![c] =
                IF RemoteAccepts(c, NextIn(c).data) THEN ClosePath(@) ELSE @]
  /\ last' = RemoteStep("remote-end", c, RemoteAccepts(c, NextIn(c).data))
  /\ UNCHANGED <<linkVars, serverVars, inbox, relayGhost, uiVars, histVars,
                 drawVars,
                 canvas, strokeStyle, lineWidth, pendingImg>>

\* handleRemoteText
DeliverText(c) ==
  /\ joined[c]
  /\ outbox[c] # <<>>
  /\ NextIn(c).ev = "draw-text"
  /\ Taken(c)
  /\ LET d == NextIn(c).data
     IN canvas' = [canvas EXCEPT ![c] =
          IF RemoteAccepts(c, d)
            THEN @ \cup {TextInk(<<d.x, d.y>>, d.color, d.fontSize, d.text)}
            ELSE @]
  /\ last' = RemoteStep("remote-text", c, RemoteAccepts(c, NextIn(c).data))
  /\ UNCHANGED <<linkVars, serverVars, inbox, relayGhost, uiVars, histVars,
                 drawVars,
                 path, strokeStyle, lineWidth, pendingImg>>

\* The guard of onClear: room !== roomId.
ClearAccepts(c, data) == data.kind = "str" /\ data.val = roomId[c]

\* onClear: registered from mount; without a mounted canvas both the clear
\* and saveCanvas do nothing.
DeliverClear(c) ==
  /\ outbox[c] # <<>>
  /\ NextIn(c).ev = "clear"
  /\ Taken(c)
  /\ IF ClearAccepts(c, NextIn(c).data) /\ joined[c]
       THEN /\ canvas' = [canvas EXCEPT ![c] = ClearRect(@)]
            /\ Saved(c, <<ClearRect(canvas[c])>>)
       ELSE UNCHANGED <<canvas, histVars>>
  /\ last' = RemoteStep("remote-clear", c, ClearAccepts(c, NextIn(c).data))
  /\ UNCHANGED <<linkVars, serverVars, inbox, relayGhost, uiVars, drawVars,
                 path,
                 strokeStyle, lineWidth, pendingImg>>

\* Events the client registers no listener for, and the stroke and text
\* events before the client has joined.
DeliverOther(c) ==
  /\ outbox[c] # <<>>
  /\ \/ NextIn(c).ev \notin StrokeEvents \cup {"draw-text", "clear"}
     \/ NextIn(c).ev # "clear" /\ ~joined[c]
  /\ Taken(c)
  /\ last' = UiStep("remote-other", c)
  /\ UNCHANGED <<linkVars, serverVars, inbox, relayGhost, clientVars>>

\* App.jsx after mount, before the user has entered a room id.
InitClient ==
  /\ roomId = [c \in Client |-> ""]
  /\ joined = [c \in Client |-> FALSE]
  /\ color = [c \in Client |-> DefaultColor]
  /\ size = [c \in Client |-> DefaultSize]
  /\ tool = [c \in Client |-> "brush"]
  /\ canUndo = [c \in Client |-> FALSE]
  /\ textInput = [c \in Client |-> ""]
  /\ textPosition = [c \in Client |-> NoPos]
  /\ isPlacingText = [c \in Client |-> FALSE]
  /\ showTextMarker = [c \in Client |-> FALSE]
  /\ history = [c \in Client |-> <<>>]
  /\ isDrawing = [c \in Client |-> FALSE]
  /\ startPos = [c \in Client |-> NoPos]
  /\ tempCanvas = [c \in Client |-> NoCanvas]
  /\ canvas = [c \in Client |-> Blank]
  /\ path = [c \in Client |-> <<>>]
  /\ strokeStyle = [c \in Client |-> ContextDefaultStyle]
  /\ lineWidth = [c \in Client |-> ContextDefaultWidth]
  /\ pendingImg = [c \in Client |-> <<>>]
  /\ timers = [c \in Client |-> 0]
  /\ initialized = [c \in Client |-> FALSE]
  /\ pushed = [c \in Client |-> <<>>]
  /\ pops = [c \in Client |-> 0]
  /\ sendBuffer = [c \in Client |-> <<>>]
  /\ joining = [c \in Client |-> <<>>]

\* ------------------------------------------------------------------ raw clients
\* Any socket.io client: it connects, emits any event with any payload and
\* receives.
DrawData(r) ==
  [ObjData(r) EXCEPT !.x = 10, !.y = 10, !.color = "#ef4444", !.size = 4,
                     !.tool = "brush"]
RawPayload ==
  {AbsentData, StrData("demo1"), ObjData(Undef)} \cup {DrawData(r) : r \in Room}
JoinPayload == {StrData(r) : r \in Room}

Quiet == \A c \in Client : inbox[c] = <<>> /\ outbox[c] = <<>>

RawConnect(c) ==
  /\ serverUp
  /\ c \notin connected
  /\ sid[c] <= MaxDrops
  /\ connected' = connected \cup {c}
  /\ sid' = [sid EXCEPT ![c] = @ + 1]
  /\ last' = Step("connect", c, NoMsg)
  /\ UNCHANGED <<linkVars, serverUp, rooms, netVars, relayGhost, clientVars>>

\* socket.emit(ev, data) by client c; log: the message is recorded in
\* strokeSent and, on receipt, in strokeRecv.
RawEmit(c, ev, data, log) ==
  /\ c \in connected
  /\ log => Len(strokeSent[c]) < MaxStrokeMsgs
  /\ LET m == Msg(ev, data, c, IF log THEN Len(strokeSent[c]) + 1 ELSE 0)
     IN /\ inbox' = [inbox EXCEPT ![c] = Append(@, m)]
        /\ strokeSent' = IF log THEN [strokeSent EXCEPT ![c] = Append(@, m)]
                                ELSE strokeSent
  /\ last' = Step("emit", c, NoMsg)
  /\ UNCHANGED <<linkVars, serverVars, outbox, strokeRecv, owed, drops,
                 clientVars>>

RawReceive(c) ==
  /\ outbox[c] # <<>>
  /\ LET m == Head(outbox[c])
     IN /\ outbox' = [outbox EXCEPT ![c] = Tail(@)]
        /\ strokeRecv' = IF m.seq > 0 THEN [strokeRecv EXCEPT ![c] = Append(@, m)]
                                      ELSE strokeRecv
  /\ last' = Step("receive", c, NoMsg)
  /\ UNCHANGED <<linkVars, serverVars, inbox, strokeSent, owed, drops,
                 clientVars>>

InitServer ==
  /\ serverUp = TRUE
  /\ connected = {}
  /\ sid = [c \in Client |-> 0]
  /\ rooms = [k \in RoomKey |-> {}]
  /\ inbox = [c \in Client |-> <<>>]
  /\ outbox = [c \in Client |-> <<>>]

InitRelay ==
  /\ InitServer
  /\ strokeSent = [c \in Client |-> <<>>]
  /\ strokeRecv = [c \in Client |-> <<>>]
  /\ owed = [c \in Client |-> {}]
  /\ drops = 0
  /\ last = Step("init", "A", NoMsg)
  /\ InitClient
  /\ used = [k \in InputKind |-> 0]

\* An input that counts against no quota.
Free(A) == A /\ UNCHANGED used
\* An input of kind k, of which at most max are made.
Quota(k, max, A) == used[k] < max /\ used' = [used EXCEPT ![k] = @ + 1] /\ A

\* The relay under arbitrary clients, one message in flight at a time.
NextRelay ==
  \/ \E c \in Client : Free(RawConnect(c))
  \/ \E c \in Client, d \in JoinPayload :
       Quiet /\ Free(RawEmit(c, JoinEvent, d, FALSE))
  \/ \E c \in Client, ev \in RelayEvents, d \in RawPayload :
       Quiet /\ Free(RawEmit(c, ev, d, FALSE))
  \/ \E c \in Client : Free(ServerHandle(c))
  \/ \E c \in Client : Free(RawReceive(c))

SpecRelay == InitRelay /\ [][NextRelay]_vars

\* Stroke traffic: client A emits stroke messages back to back while B and
\* C join rooms and receive.
Sender == "A"
NextStroke ==
  \/ \E c \in Client : Free(RawConnect(c))
  \/ \E c \in Client \ {Sender}, r \in Room :
       /\ inbox[c] = <<>>
       /\ c \notin rooms[r]
       /\ Free(RawEmit(c, JoinEvent, StrData(r), FALSE))
  \/ \E ev \in StrokeEvents : Free(RawEmit(Sender, ev, DrawData("demo1"), TRUE))
  \/ \E c \in Client : Free(ServerHandle(c))
  \/ \E c \in Client : Free(RawReceive(c))

SpecStroke == InitRelay /\ [][NextStroke]_vars

\* Raw clients that connect, join rooms, draw and drop.
NextLeave ==
  \/ \E c \in Client : Free(RawConnect(c))
  \/ \E c \in Client, r \in Room :
       Quiet /\ c \notin rooms[r] /\ Free(RawEmit(c, JoinEvent, StrData(r), FALSE))
  \/ \E c \in Client, r \in Room : Quiet /\ Free(RawEmit(c, "drawing", DrawData(r), FALSE))
  \/ \E c \in Client : Free(ServerHandle(c))
  \/ \E c \in Client : Free(RawReceive(c))
  \/ \E c \in Client : Free(ServerDisconnect(c))

SpecLeave == InitRelay /\ [][NextLeave]_vars

\* ------------------------------------------------------------------ one board and its history
\* A browser that has just joined a room: handleJoin has run on a connected
\* socket, the server has handled join-room, the canvas is mounted and the
\* initial resizeCanvas is due within 500 ms.
Board == "A"
Remote == "B"
HomeRoom == "demo1"
IdleClicks == 28
MaxSaves == 3
MaxActs == 2
ClickPos == <<10, 10>>

JoinedAs(c, r) ==
  /\ roomId[c] = r
  /\ joined[c]
  /\ c \in connected
  /\ c \in rooms[r]

RECURSIVE Blanks(_)
Blanks(n) == IF n = 0 THEN <<>> ELSE Append(Blanks(n - 1), Blank)

\* Either the board has just been joined and the initial resizeCanvas is still
\* due, or that resize has run and the user has since pressed and released the
\* brush at ClickPos IdleClicks times without moving, each release saving the
\* blank canvas, and the server has relayed everything.
InitHist ==
  /\ serverUp = TRUE
  /\ connected = {Board, Remote}
  /\ sid = [c \in Client |-> IF c \in {Board, Remote} THEN 1 ELSE 0]
  /\ rooms = [r \in RoomKey |-> IF r = HomeRoom THEN {Board} ELSE {}]
  /\ inbox = [c \in Client |-> <<>>]
  /\ outbox = [c \in Client |-> <<>>]
  /\ strokeSent = <<>>
  /\ strokeRecv = [c \in Client |-> <<>>]
  /\ owed = [c \in Client |-> 0]
  /\ drops = 0
  /\ last = Step("init", Board, NoMsg)
  /\ roomId = [c \in Client |-> IF c = Board THEN HomeRoom ELSE ""]
  /\ joined = [c \in Client |-> c = Board]
  /\ color = [c \in Client |-> DefaultColor]
  /\ size = [c \in Client |-> DefaultSize]
  /\ tool = [c \in Client |-> "brush"]
  /\ textInput = [c \in Client |-> ""]
  /\ textPosition = [c \in Client |-> NoPos]
  /\ isPlacingText = [c \in Client |-> FALSE]
  /\ showTextMarker = [c \in Client |-> FALSE]
  /\ isDrawing = [c \in Client |-> FALSE]
  /\ tempCanvas = [c \in Client |-> NoCanvas]
  /\ canvas = [c \in Client |-> Blank]
  /\ pendingImg = [c \in Client |-> <<>>]
  /\ pops = [c \in Client |-> 0]
  /\ sendBuffer = [c \in Client |-> <<>>]
  /\ joining = [c \in Client |-> <<>>]
  /\ used = [k \in InputKind |-> 0]
  /\ \/ /\ timers = [c \in Client |-> IF c = Board THEN 1 ELSE 0]
        /\ initialized = [c \in Client |-> FALSE]
        /\ history = [c \in Client |-> <<>>]
        /\ pushed = [c \in Client |-> <<>>]
        /\ canUndo = [c \in Client |-> FALSE]
        /\ startPos = [c \in Client |-> NoPos]
        /\ path = [c \in Client |-> <<>>]
        /\ strokeStyle = [c \in Client |-> ContextDefaultStyle]
        /\ lineWidth = [c \in Client |-> ContextDefaultWidth]
     \/ /\ timers = [c \in Client |-> 0]
        /\ initialized = [c \in Client |-> c = Board]
        /\ history = [c \in Client |->
                        IF c = Board THEN Blanks(1 + IdleClicks) ELSE <<>>]
        /\ pushed = history
        /\ canUndo = [c \in Client |-> c = Board]
        /\ startPos = [c \in Client |-> IF c = Board THEN ClickPos ELSE NoPos]
        /\ path = [c \in Client |-> IF c = Board THEN <<ClickPos>> ELSE <<>>]
        /\ strokeStyle = [c \in Client |->
                            IF c = Board THEN DefaultColor ELSE ContextDefaultStyle]
        /\ lineWidth = [c \in Client |->
                          IF c = Board THEN DefaultSize ELSE ContextDefaultWidth]

\* Inputs are made once the relay has caught up, and while saves remain.
Room4(n) == Quiet /\ used["save"] + n <= MaxSaves

\* An input that calls saveCanvas n times.
Saves(n, A) == used' = [used EXCEPT !["save"] = @ + n] /\ A
SavesAnd(n, k, max, A) ==
  /\ used[k] < max
  /\ used' = [used EXCEPT !["save"] = @ + n, ![k] = @ + 1]
  /\ A

\* At most MaxSaves calls of saveCanvas after the initial state, and at most
\* MaxActs inputs other than presses, releases, typing and committing text.
\* The pointer is pressed at ClickPos and moved to any position.
NextHist ==
  \/ Free(TimerFires(Board))
  \/ Quota("act", MaxActs, WindowResize(Board))
  \/ Room4(0) /\ Free(PointerDown(Board, ClickPos))
  \/ \E p \in Pos : Room4(0) /\ Quota("act", MaxActs, PointerMove(Board, p))
  \/ Room4(1) /\ Saves(1, StopDrawing(Board))
  \/ Free(StopIdle(Board))
  \/ \E t \in {"brush", "text"} : Quota("act", MaxActs, SetTool(Board, t))
  \/ Free(PointerDownText(Board, ClickPos))
  \/ \E txt \in TextChoice : Free(SetTextInput(Board, txt))
  \/ Room4(1) /\ Saves(1, TextEnter(Board))
  \/ Room4(2) /\ SavesAnd(2, "act", MaxActs, ClearBoard(Board))
  \/ Quota("act", MaxActs, HandleUndo(Board))
  \/ Free(ImgOnload(Board))
  \/ Quota("act", MaxActs, RawEmit(Remote, "clear", StrData(HomeRoom), FALSE))
  \/ \E c \in {Board, Remote} : Free(ServerHandle(c))
  \/ used["save"] < MaxSaves /\ Saves(1, DeliverClear(Board))

SpecHist == InitHist /\ [][NextHist]_vars

\* The same board, drawing, clearing and undoing: at most MaxUndos undos.
MaxUndos == 1
NextClear ==
  \/ Free(TimerFires(Board))
  \/ Room4(0) /\ Free(PointerDown(Board, ClickPos))
  \/ \E p \in Pos : Room4(0) /\ Quota("act", MaxActs, PointerMove(Board, p))
  \/ Room4(1) /\ Saves(1, StopDrawing(Board))
  \/ Room4(2) /\ Saves(2, ClearBoard(Board))
  \/ Quota("undo", MaxUndos, HandleUndo(Board))
  \/ Free(ImgOnload(Board))
  \/ Free(ServerHandle(Board))

SpecClear == InitHist /\ [][NextClear]_vars

\* ------------------------------------------------------------------ joining and the transport
MaxJoins == 2
\* setRoomId from the join card, shown until the client has joined.
SetRoomId(c, r) ==
  /\ ~joined[c]
  /\ roomId[c] # r
  /\ roomId' = [roomId EXCEPT ![c] = r]
  /\ last' = UiStep("room", c)
  /\ UNCHANGED <<serverVars, netVars, relayGhost, histVars, drawVars, ctxVars,
                 linkVars, joined, color, size, tool, textInput, textPosition,
                 isPlacingText, showTextMarker, timers>>

\* handleJoin, from the Join button or Enter in the room id input.  On a
\* socket that is not connected it registers a connectHandler holding the
\* room id and calls connect().
HandleJoin(c) ==
  /\ ~joined[c]
  /\ roomId[c] # ""
  /\ Len(joining[c]) < MaxJoins
  /\ IF c \in connected
       THEN /\ Emit(c, JoinEvent, StrData(roomId[c]))
            /\ joined' = [joined EXCEPT ![c] = TRUE]
            /\ timers' = [timers EXCEPT ![c] = @ + 1]
            /\ UNCHANGED joining
       ELSE /\ joining' = [joining EXCEPT ![c] = Append(@, roomId[c])]
            /\ UNCHANGED <<inbox, sendBuffer, joined, timers>>
  /\ last' = UiStep("join", c)
  /\ UNCHANGED <<serverVars, outbox, relayGhost, histVars, drawVars, ctxVars,
                 roomId, color, size, tool, textInput, textPosition,
                 isPlacingText, showTextMarker>>

\* The packets a socket sends when its connection conn opens: the send
\* buffer first, then what the connect listeners emit.
OnConnect(c, conn) ==
  [i \in 1..Len(sendBuffer[c]) |-> [sendBuffer[c][i] EXCEPT !.from = conn]]
    \o [i \in 1..Len(joining[c]) |->
          [ev |-> JoinEvent, data |-> StrData(joining[c][i]), from |-> conn,
           seq |-> 0, sentEv |-> JoinEvent, sentData |-> StrData(joining[c][i])]]

\* The socket of App.jsx connects or, after a drop, reconnects: the server
\* holds a new socket for it, the send buffer is flushed and every pending
\* connectHandler runs.
SocketConnect(c) ==
  /\ serverUp
  /\ c \notin connected
  /\ joined[c] \/ joining[c] # <<>>
  /\ sid[c] <= MaxDrops
  /\ connected' = connected \cup {c}
  /\ sid' = [sid EXCEPT ![c] = @ + 1]
  /\ inbox' = [inbox EXCEPT ![c] = OnConnect(c, <<c, sid[c] + 1>>)]
  /\ sendBuffer' = [sendBuffer EXCEPT ![c] = <<>>]
  /\ joining' = [joining EXCEPT ![c] = <<>>]
  /\ joined' = [joined EXCEPT ![c] = @ \/ joining[c] # <<>>]
  /\ timers' = [timers EXCEPT ![c] = @ + Len(joining[c])]
  /\ last' = Step("connect", c, NoMsg)
  /\ UNCHANGED <<serverUp, rooms, outbox, relayGhost, histVars, drawVars, ctxVars,
                 roomId, color, size, tool, textInput, textPosition,
                 isPlacingText, showTextMarker>>

\* One browser next to a raw client that is already in HomeRoom.
MaxStrokeInputs == 2
MaxRemote == 1
RemoteEvents == StrokeEvents \cup {"draw-text", "clear", JoinEvent}
RemoteData(ev, r) ==
  IF ev \in {"clear", JoinEvent} THEN StrData(r)
  ELSE [DrawData(r) EXCEPT !.fontSize = 16, !.text = "yo"]

InitLink ==
  /\ serverUp = TRUE
  /\ connected = {Remote}
  /\ sid = [c \in Client |-> IF c = Remote THEN 1 ELSE 0]
  /\ rooms = [k \in RoomKey |-> IF k = HomeRoom THEN {Remote} ELSE {}]
  /\ inbox = [c \in Client |-> <<>>]
  /\ outbox = [c \in Client |-> <<>>]
  /\ strokeSent = [c \in Client |-> <<>>]
  /\ strokeRecv = [c \in Client |-> <<>>]
  /\ owed = [c \in Client |-> {}]
  /\ drops = 0
  /\ last = Step("init", Board, NoMsg)
  /\ InitClient
  /\ used = [k \in InputKind |-> 0]

NextLink ==
  \/ \E r \in Room : Free(SetRoomId(Board, r))
  \/ Free(HandleJoin(Board))
  \/ Free(SocketConnect(Board))
  \/ Free(ServerDisconnect(Board))
  \/ Free(TimerFires(Board))
  \/ Quiet /\ Quota("act", MaxStrokeInputs, PointerDown(Board, ClickPos))
  \/ \E p \in Pos : Quiet /\ Quota("act", MaxStrokeInputs, PointerMove(Board, p))
  \/ Quiet /\ Quota("act", MaxStrokeInputs, StopDrawing(Board))
  \/ \E ev \in RemoteEvents, r \in Room :
       Quiet /\ Quota("remote", MaxRemote, RawEmit(Remote, ev, RemoteData(ev, r), FALSE))
  \/ \E c \in {Board, Remote} : Free(ServerHandle(c))
  \/ Free(RawReceive(Remote))
  \/ Free(DeliverStart(Board))
  \/ Free(DeliverDrawing(Board))
  \/ Free(DeliverEnd(Board))
  \/ Free(DeliverText(Board))
  \/ Free(DeliverClear(Board))
  \/ Free(DeliverOther(Board))

SpecLink == InitLink /\ [][NextLink]_vars

\* The same browser on a transport that stays up.
NextRooms ==
  \/ \E r \in Room : Free(SetRoomId(Board, r))
  \/ Free(HandleJoin(Board))
  \/ Free(SocketConnect(Board))
  \/ Free(TimerFires(Board))
  \/ Quiet /\ Quota("act", MaxStrokeInputs, PointerDown(Board, ClickPos))
  \/ \E p \in Pos : Quiet /\ Quota("act", MaxStrokeInputs, PointerMove(Board, p))
  \/ Quiet /\ Quota("act", MaxStrokeInputs, StopDrawing(Board))
  \/ \E ev \in RemoteEvents, r \in Room :
       Quiet /\ Quota("remote", MaxRemote, RawEmit(Remote, ev, RemoteData(ev, r), FALSE))
  \/ \E c \in {Board, Remote} : Free(ServerHandle(c))
  \/ Free(RawReceive(Remote))
  \/ Free(DeliverStart(Board))
  \/ Free(DeliverDrawing(Board))
  \/ Free(DeliverEnd(Board))
  \/ Free(DeliverText(Board))
  \/ Free(DeliverClear(Board))
  \/ Free(DeliverOther(Board))

SpecRooms == InitLink /\ [][NextRooms]_vars

\* ------------------------------------------------------------------ applying remote operations
\* A browser in HomeRoom, initialised, that only changes its own settings
\* while a raw client in the same room emits stroke and text messages.
MaxApply == 2
ApplyEvents == StrokeEvents \cup {"draw-text"}
ApplyData ==
  {[DrawData(HomeRoom) EXCEPT !.x = p[1], !.y = p[2], !.color = col,
                              !.fontSize = 16, !.text = "yo"] :
     p \in Pos, col \in PresetColor}

InitApply ==
  /\ serverUp = TRUE
  /\ connected = {Board, Remote}
  /\ sid = [c \in Client |-> IF c \in {Board, Remote} THEN 1 ELSE 0]
  /\ rooms = [k \in RoomKey |-> IF k = HomeRoom THEN {Board, Remote} ELSE {}]
  /\ inbox = [c \in Client |-> <<>>]
  /\ outbox = [c \in Client |-> <<>>]
  /\ strokeSent = [c \in Client |-> <<>>]
  /\ strokeRecv = [c \in Client |-> <<>>]
  /\ owed = [c \in Client |-> {}]
  /\ drops = 0
  /\ last = Step("init", Board, NoMsg)
  /\ roomId = [c \in Client |-> IF c = Board THEN HomeRoom ELSE ""]
  /\ joined = [c \in Client |-> c = Board]
  /\ color = [c \in Client |-> DefaultColor]
  /\ size = [c \in Client |-> DefaultSize]
  /\ tool = [c \in Client |-> "brush"]
  /\ canUndo = [c \in Client |-> FALSE]
  /\ textInput = [c \in Client |-> ""]
  /\ textPosition = [c \in Client |-> NoPos]
  /\ isPlacingText = [c \in Client |-> FALSE]
  /\ showTextMarker = [c \in Client |-> FALSE]
  /\ history = [c \in Client |-> IF c = Board THEN <<Blank>> ELSE <<>>]
  /\ isDrawing = [c \in Client |-> FALSE]
  /\ startPos = [c \in Client |-> NoPos]
  /\ tempCanvas = [c \in Client |-> NoCanvas]
  /\ canvas = [c \in Client |-> Blank]
  /\ path = [c \in Client |-> <<>>]
  /\ strokeStyle = [c \in Client |-> ContextDefaultStyle]
  /\ lineWidth = [c \in Client |-> ContextDefaultWidth]
  /\ pendingImg = [c \in Client |-> <<>>]
  /\ timers = [c \in Client |-> 0]
  /\ initialized = [c \in Client |-> c = Board]
  /\ pushed = history
  /\ pops = [c \in Client |-> 0]
  /\ sendBuffer = [c \in Client |-> <<>>]
  /\ joining = [c \in Client |-> <<>>]
  /\ used = [k \in InputKind |-> 0]

NextApply ==
  \/ \E t \in {"brush", "eraser"} : Free(SetTool(Board, t))
  \/ \E col \in PresetColor : Free(SetColor(Board, col))
  \/ \E n \in SizeChoice : Free(SetSize(Board, n))
  \/ \E ev \in ApplyEvents, d \in ApplyData :
       Quota("remote", MaxApply, RawEmit(Remote, ev, d, FALSE))
  \/ Free(ServerHandle(Remote))
  \/ Free(DeliverStart(Board))
  \/ Free(DeliverDrawing(Board))
  \/ Free(DeliverEnd(Board))
  \/ Free(DeliverText(Board))

SpecApply == InitApply /\ [][NextApply]_vars

\* ------------------------------------------------------------------ a local and a remote stroke
\* The board of InitApply draws with its pointer at the positions of Pos
\* while the raw client in its room sends stroke messages for the positions
\* of FarPos, in a colour the board does not use.
FarPos == {<<30, 30>>, <<70, 70>>}
FarColor == "#ef4444"
FarData ==
  {[DrawData(HomeRoom) EXCEPT !.x = p[1], !.y = p[2], !.color = FarColor] :
     p \in FarPos}
\* The raw client sends one stroke as a browser does: start-draw first.
FarNext == IF used["remote"] = 0 THEN {"start-draw"} ELSE {"drawing", "end-draw"}

NextMix ==
  \/ \E p \in Pos : Quota("act", MaxStrokeInputs, PointerDown(Board, p))
  \/ \E p \in Pos : Quota("act", MaxStrokeInputs, PointerMove(Board, p))
  \/ Quota("act", MaxStrokeInputs, StopDrawing(Board))
  \/ \E ev \in FarNext, d \in FarData :
       Quota("remote", MaxApply, RawEmit(Remote, ev, d, FALSE))
  \/ \E c \in {Board, Remote} : Free(ServerHandle(c))
  \/ Free(RawReceive(Remote))
  \/ Free(DeliverStart(Board))
  \/ Free(DeliverDrawing(Board))
  \/ Free(DeliverEnd(Board))

SpecMix == InitApply /\ [][NextMix]_vars

\* ------------------------------------------------------------------ undo next to remote content
\* The board of InitApply draws and undoes while the raw client in its room
\* sends a draw-text.
NextUndo ==
  \/ Quota("act", MaxStrokeInputs, PointerDown(Board, ClickPos))
  \/ \E p \in Pos : Quota("act", MaxStrokeInputs, PointerMove(Board, p))
  \/ Quota("act", MaxStrokeInputs, StopDrawing(Board))
  \/ Quota("undo", MaxUndos, HandleUndo(Board))
  \/ Free(ImgOnload(Board))
  \/ Quota("remote", MaxRemote,
           RawEmit(Remote, "draw-text", RemoteData("draw-text", HomeRoom), FALSE))
  \/ \E c \in {Board, Remote} : Free(ServerHandle(c))
  \/ Free(RawReceive(Remote))
  \/ Free(DeliverText(Board))

SpecUndo == InitApply /\ [][NextUndo]_vars

\* ------------------------------------------------------------------ a shape drag next to remote content
\* The board of InitApply drags a rectangle or draws with the brush while
\* the raw client in its room sends a draw-text or a clear.
NextShape ==
  \/ \E t \in {"brush", "rectangle"} : Free(SetTool(Board, t))
  \/ Quota("act", MaxStrokeInputs, PointerDown(Board, ClickPos))
  \/ \E p \in Pos : Quota("act", MaxStrokeInputs, PointerMove(Board, p))
  \/ Quota("act", MaxStrokeInputs, StopDrawing(Board))
  \/ \E ev \in {"draw-text", "clear"} :
       Quota("remote", MaxRemote,
             RawEmit(Remote, ev, RemoteData(ev, HomeRoom), FALSE))
  \/ \E c \in {Board, Remote} : Free(ServerHandle(c))
  \/ Free(RawReceive(Remote))
  \/ Free(DeliverText(Board))
  \/ Free(DeliverClear(Board))

SpecShape == InitApply /\ [][NextShape]_vars

\* ------------------------------------------------------------------ two boards in one room
\* Two browsers that have joined HomeRoom and whose initial resizeCanvas has
\* run, before either has drawn anything.
Boards == {"A", "B"}
MaxInputs == 4

Init ==
  /\ serverUp = TRUE
  /\ connected = Boards
  /\ sid = [c \in Client |-> IF c \in Boards THEN 1 ELSE 0]
  /\ rooms = [r \in RoomKey |-> IF r = HomeRoom THEN Boards ELSE {}]
  /\ inbox = [c \in Client |-> <<>>]
  /\ outbox = [c \in Client |-> <<>>]
  /\ strokeSent = <<>>
  /\ strokeRecv = [c \in Client |-> <<>>]
  /\ owed = [c \in Client |-> 0]
  /\ drops = 0
  /\ last = Step("init", Board, NoMsg)
  /\ roomId = [c \in Client |-> IF c \in Boards THEN HomeRoom ELSE ""]
  /\ joined = [c \in Client |-> c \in Boards]
  /\ color = [c \in Client |-> DefaultColor]
  /\ size = [c \in Client |-> DefaultSize]
  /\ tool = [c \in Client |-> "brush"]
  /\ canUndo = [c \in Client |-> FALSE]
  /\ textInput = [c \in Client |-> ""]
  /\ textPosition = [c \in Client |-> NoPos]
  /\ isPlacingText = [c \in Client |-> FALSE]
  /\ showTextMarker = [c \in Client |-> FALSE]
  /\ history = [c \in Client |-> IF c \in Boards THEN <<Blank>> ELSE <<>>]
  /\ isDrawing = [c \in Client |-> FALSE]
  /\ startPos = [c \in Client |-> NoPos]
  /\ tempCanvas = [c \in Client |-> NoCanvas]
  /\ canvas = [c \in Client |-> Blank]
  /\ path = [c \in Client |-> <<>>]
  /\ strokeStyle = [c \in Client |-> ContextDefaultStyle]
  /\ lineWidth = [c \in Client |-> ContextDefaultWidth]
  /\ pendingImg = [c \in Client |-> <<>>]
  /\ timers = [c \in Client |-> 0]
  /\ initialized = [c \in Client |-> c \in Boards]
  /\ pushed = history
  /\ pops = [c \in Client |-> 0]
  /\ sendBuffer = [c \in Client |-> <<>>]
  /\ joining = [c \in Client |-> <<>>]
  /\ used = [k \in InputKind |-> 0]

\* A user input, of which at most MaxInputs are made in all.
Input(A) == Quota("act", MaxInputs, A)

Next ==
  \/ \E c \in Boards, t \in TOOLS : Input(SetTool(c, t))
  \/ \E c \in Boards, col \in PresetColor : Input(SetColor(c, col))
  \/ \E c \in Boards, n \in SizeChoice : Input(SetSize(c, n))
  \/ \E c \in Boards, p \in Pos : Input(PointerDown(c, p))
  \/ \E c \in Boards, p \in Pos : Input(PointerMove(c, p))
  \/ \E c \in Boards : Input(StopDrawing(c))
  \/ \E c \in Boards, p \in Pos : Input(PointerDownText(c, p))
  \/ \E c \in Boards, txt \in TextChoice : Input(SetTextInput(c, txt))
  \/ \E c \in Boards : Input(TextEnter(c))
  \/ \E c \in Boards : Input(ClearBoard(c))
  \/ \E c \in Boards : Input(HandleUndo(c))
  \/ \E c \in Boards : Free(ImgOnload(c))
  \/ \E c \in Boards : Free(ServerHandle(c))
  \/ \E c \in Boards : Free(DeliverStart(c))
  \/ \E c \in Boards : Free(DeliverDrawing(c))
  \/ \E c \in Boards : Free(DeliverEnd(c))
  \/ \E c \in Boards : Free(DeliverText(c))
  \/ \E c \in Boards : Free(DeliverClear(c))

Spec == Init /\ [][Next]_vars

\* ------------------------------------------------------------------ relay claims
\* The room a message names: the bare payload for clear, the roomId field
\* of an object payload otherwise.
RoomNamed(m) ==
  IF m.ev = "clear"
    THEN (IF m.data.kind = "str" THEN m.data.val ELSE Undef)
    ELSE (IF m.data.kind = "obj" THEN m.data.roomId ELSE Undef)
\* The members, in the current state, of the room message m names.
NamedMembers(m) == IF RoomNamed(m) \in Room THEN rooms[RoomNamed(m)] ELSE {}
InFlightTo(r) == {outbox[r][i] : i \in 1..Len(outbox[r])}
HandledNow == last'.op = "handle"
Handled == Head(inbox[last'.who])

\* C2: no relayed message (any relayed event, or the user-joined notice) is
\* ever queued for delivery to the connection that sent it.
C2_NoEchoToSender ==
  \A r \in Client : \A m \in InFlightTo(r) :
    m.ev \in RelayEvents \cup {"user-joined"} => m.from # ConnId(r)

\* C2 witness: a relayed message is on its way to a member of a room while
\* its sender, a member of the same room, has nothing queued.
C2_Witness ==
  \E r \in Client : \E s \in Client \ {r} : \E m \in InFlightTo(r) :
    /\ m.ev \in RelayEvents
    /\ m.from = ConnId(s)
    /\ {r, s} \subseteq NamedMembers([m EXCEPT !.ev = m.sentEv, !.data = m.sentData])
    /\ outbox[s] = <<>>

\* C4: a relayed drawing message reaches exactly the members, at the time of
\* relay, of the room it names, minus the sender, and nobody else.
C4Events == VerbatimEvents \cup {"clear"}
C4_RoomScoped ==
  [][(HandledNow /\ serverUp' /\ Handled.ev \in C4Events) =>
       \A r \in Client :
         IF r \in NamedMembers(Handled) \ {last'.who}
           THEN /\ Len(outbox'[r]) = Len(outbox[r]) + 1
                /\ outbox'[r][Len(outbox'[r])].ev = Handled.ev
           ELSE outbox'[r] = outbox[r]]_vars

\* C4 witness: a drawing message was relayed to a member of its room while a
\* connected client outside that room received nothing.
C4_Witness ==
  /\ last.op = "handle"
  /\ last.msg.ev \in C4Events
  /\ \E r \in NamedMembers(last.msg) \ {last.who} : outbox[r] # <<>>
  /\ \E n \in connected \ ({last.who} \cup NamedMembers(last.msg)) :
       /\ outbox[n] = <<>>
       /\ \E k \in Room : n \in rooms[k]

\* C5: for start-draw, drawing, end-draw, the shape events, draw-text, clear
\* and clear-canvas, what is delivered is the event and payload as emitted.
C5Events == VerbatimEvents \cup {"clear", "clear-canvas"}
C5_PayloadVerbatim ==
  \A r \in Client : \A m \in InFlightTo(r) :
    m.sentEv \in C5Events => m.ev = m.sentEv /\ m.data = m.sentData

\* C6: no relay handler fails, whatever the payload.
C6_HandlerNeverFails == serverUp

\* C7: relaying a message to a room without another member delivers
\* nothing, changes no membership and does not fail; the message is consumed
\* and the connection's next message is at the head of its queue.
C7_EmptyRoomNoOp ==
  [][(/\ HandledNow
      /\ Handled.ev \in RelayEvents
      /\ Handled.data.kind # "absent"
      /\ NamedMembers(Handled) \ {last'.who} = {}) =>
       /\ outbox' = outbox
       /\ rooms' = rooms
       /\ connected' = connected
       /\ serverUp'
       /\ inbox' = [inbox EXCEPT ![last'.who] = Tail(@)]]_vars

\* C7 witness: a message naming a room in which its sender is alone was
\* handled while another client sat in another room; nothing is in flight.
C7_Witness ==
  /\ last.op = "handle"
  /\ last.msg.ev \in RelayEvents
  /\ RoomNamed(last.msg) \in Room
  /\ rooms[RoomNamed(last.msg)] = {last.who}
  /\ \E n \in Client \ {last.who}, k \in Room : n \in rooms[k]
  /\ Quiet
  /\ serverUp

\* C3: each receiver's stream of logged stroke messages (received, then
\* queued) is exactly the messages relayed while it was in their room, each
\* once, in emission order, as emitted.
Stream(b) == strokeRecv[b] \o SelectSeq(outbox[b], LAMBDA m : m.seq > 0)
C3_StrokeFifo ==
  \A b \in Client :
    LET st == Stream(b)
    IN /\ \A i \in 1..Len(st) :
            /\ st[i].seq \in 1..Len(strokeSent[Sender])
            /\ st[i].ev = strokeSent[Sender][st[i].seq].ev
            /\ st[i].data = strokeSent[Sender][st[i].seq].data
       /\ \A i \in 1..(Len(st) - 1) : st[i].seq < st[i + 1].seq
       /\ {st[i].seq : i \in 1..Len(st)} = owed[b]
       /\ b = Sender => st = <<>>

\* C3 witness: a receiver holds a whole stroke, start-draw, drawing,
\* end-draw, in that order, while another client joined too late for the
\* start of it.
C3_Witness ==
  \E b \in Client \ {Sender} : \E n \in Client \ {Sender, b} :
    /\ Len(strokeRecv[b]) = 3
    /\ strokeRecv[b][1].ev = "start-draw"
    /\ strokeRecv[b][2].ev = "drawing"
    /\ strokeRecv[b][3].ev = "end-draw"
    /\ owed[n] = {2, 3}

\* ------------------------------------------------------------------ history claims
Min(a, b) == IF a <= b THEN a ELSE b
\* h is the tail end of all.
IsSuffix(h, all) ==
  /\ Len(h) <= Len(all)
  /\ \A i \in 1..Len(h) : h[i] = all[Len(all) - Len(h) + i]

\* C8: once resizeCanvas has pushed the initial blank snapshot, the undo
\* history of a board holds at least 1 and at most 30 snapshots in every
\* state, whatever strokes, text commits, local and received clears, undos
\* and window resizes occur.
C8_HistoryLength ==
  \A c \in Client :
    initialized[c] => Len(history[c]) >= 1 /\ Len(history[c]) <= HistLimit

\* A full history after more pushes than it can hold, with an undo already made.
C8_Witness ==
  /\ initialized[Board]
  /\ Len(pushed[Board]) > HistLimit
  /\ pops[Board] > 0
  /\ Len(history[Board]) = HistLimit

\* C9: the undo history is the newest snapshots in push order.  pushed is the
\* sequence of snapshots pushed since the last resize and not undone; the
\* history is always its tail end, and until the first undo it is exactly the
\* newest 30 of them: the 31st push drops the first snapshot and no other.
C9_KeepsNewest ==
  \A c \in Client :
    initialized[c] =>
      /\ IsSuffix(history[c], pushed[c])
      /\ pops[c] = 0 => Len(history[c]) = Min(Len(pushed[c]), HistLimit)

\* The 31st push has happened: the history starts at the second snapshot and
\* ends at the newest, which differs from the first.
C9_Witness ==
  /\ Len(pushed[Board]) = HistLimit + 1
  /\ pops[Board] = 0
  /\ pushed[Board][1] # pushed[Board][HistLimit + 1]
  /\ history[Board][1] = pushed[Board][2]
  /\ history[Board][HistLimit] = pushed[Board][HistLimit + 1]

\* C10: handleUndo on a history of exactly one snapshot changes nothing: the
\* history, the canvas, the queued restores and canUndo stay as they are and
\* no message is emitted.
C10_UndoAtOneIsNoOp ==
  [][(last'.op = "undo" /\ Len(history[last'.who]) = 1)
       => /\ history' = history
          /\ canvas' = canvas
          /\ pendingImg' = pendingImg
          /\ canUndo' = canUndo
          /\ inbox' = inbox
          /\ outbox' = outbox]_vars

\* An undo has just been invoked on an initialized board holding one snapshot.
C10_Witness ==
  /\ last.op = "undo"
  /\ last.n = 1
  /\ initialized[last.who]
  /\ Len(history[last.who]) = 1

\* ------------------------------------------------------------------ convergence
\* Every emitted message has been delivered and applied, every restore has
\* been painted, and no stroke, shape or text placement is in progress.
Settled ==
  /\ \A c \in Client : inbox[c] = <<>> /\ outbox[c] = <<>> /\ pendingImg[c] = <<>>
  /\ \A c \in Boards : ~isDrawing[c] /\ ~isPlacingText[c]

\* C1: two boards that joined the same room before anything was drawn and
\* stay connected show the same canvas content whenever everything emitted
\* has been applied and nothing is in progress.
C1_SameCanvas ==
  \A a \in Boards : \A b \in Boards :
    (Settled /\ JoinedAs(a, HomeRoom) /\ JoinedAs(b, HomeRoom))
      => canvas[a] = canvas[b]

C12_OfflineStrokeLost ==
  \A c \in Client : \A i \in 1..Len(outbox[c]) :
    ~(outbox[c][i].seq = NoNum /\ outbox[c][i].sentEv \in StrokeEvents)

\* ------------------------------------------------------------------ disconnect
UserLeft(c) ==
  [ev |-> "user-left", data |-> UserData(ConnId(c)), from |-> ConnId(c),
   seq |-> 0, sentEv |-> "user-left", sentData |-> UserData(ConnId(c))]

\* C13: a connection that has disconnected is in no room and nothing is in
\* flight to it; and the disconnect step itself queues, for every connection
\* that remains, one user-left notice carrying the id of the connection that
\* left, whether or not the two share a room.
C13_Disconnect ==
  /\ [](\A c \in Client :
          c \notin connected =>
            outbox[c] = <<>> /\ \A k \in RoomKey : c \notin rooms[k])
  /\ [][last'.op = "disconnect" =>
          /\ \A k \in RoomKey : last'.who \notin rooms'[k]
          /\ \A d \in connected \ {last'.who} :
               outbox'[d] = Append(outbox[d], UserLeft(last'.who))
          /\ connected' = connected \ {last'.who}]_vars

\* A connection that was in a room has just left, and a connection that is
\* in no room holds its user-left notice.
C13_Witness ==
  /\ last.op = "disconnect"
  /\ last.n >= 1
  /\ \E d \in connected :
       /\ \A k \in RoomKey : d \notin rooms[k]
       /\ outbox[d] # <<>>
       /\ outbox[d][Len(outbox[d])] = UserLeft(last.who)

\* ------------------------------------------------------------------ eraser
\* C14: every start-draw and drawing message emitted with the eraser carries
\* the background colour #ffffff and 3 times a selectable size, the style
\* the sender paints the stroke with.
C14_EraserPayload ==
  \A c \in Client : \A i \in 1..Len(inbox[c]) :
    LET m == inbox[c][i]
    IN (m.ev \in {"start-draw", "drawing"} /\ m.data.kind = "obj"
          /\ m.data.tool = "eraser")
         => /\ m.data.color = EraserColor
            /\ m.data.size \in {n * EraserFactor : n \in SizeChoice}

\* ------------------------------------------------------------------ remote style
Arriving == Head(outbox[last'.who]).data
Added == canvas'[last'.who] \ canvas[last'.who]

\* C15: a board applies a received start-draw, drawing or draw-text with the
\* colour and the size or fontSize the message carries, whatever its own
\* colour, size and tool are; and a drawing message that directly follows
\* its start-draw adds exactly the segment from the start point to the
\* drawing point in the message's colour and width.
C15_MessageStyle ==
  [][/\ last'.op \in {"remote-start", "remote-drawing"}
          => /\ strokeStyle'[last'.who] = Arriving.color
             /\ lineWidth'[last'.who] = Arriving.size
             /\ \A k \in Added : k.color = Arriving.color /\ k.w = Arriving.size
     /\ last'.op = "remote-text"
          => canvas'[last'.who] =
               canvas[last'.who] \cup
                 {TextInk(<<Arriving.x, Arriving.y>>, Arriving.color,
                          Arriving.fontSize, Arriving.text)}
     /\ (last.op = "remote-start" /\ last'.op = "remote-drawing")
          => canvas'[last'.who] =
               canvas[last'.who] \cup
                 {SegInk(path[last'.who][1], <<Arriving.x, Arriving.y>>,
                         Arriving.color, Arriving.size)}]_vars

\* The stroke from (10,10) to (50,50) in #ef4444 at width 4 has just been
\* painted on a board whose own tool, colour and size are all different.
C15_Witness ==
  /\ last.op = "remote-drawing"
  /\ last.prev = "remote-start"
  /\ SegInk(<<10, 10>>, <<50, 50>>, "#ef4444", 4) \in canvas[last.who]
  /\ color[last.who] # "#ef4444"
  /\ size[last.who] # 4
  /\ tool[last.who] # "brush"

\* ------------------------------------------------------------------ room filter
\* The room id a message carries: data.roomId, or the payload itself for clear.
MsgRoom(d) ==
  CASE d.kind = "str" -> d.val
    [] d.kind = "obj" -> d.roomId
    [] OTHER -> Undef
ListenerRan ==
  last'.op \in {"ignored", "remote-start", "remote-drawing", "remote-end",
                "remote-text", "remote-clear"}

\* C16: when a joined board receives a start-draw, drawing, end-draw,
\* draw-text or clear whose room id is not the board's roomId, its canvas,
\* its context's path and style, and its undo history stay as they are.
C16_OtherRoomIgnored ==
  [][(/\ ListenerRan
      /\ joined[last'.who]
      /\ MsgRoom(Arriving) # roomId[last'.who])
       => /\ canvas'[last'.who] = canvas[last'.who]
          /\ path'[last'.who] = path[last'.who]
          /\ strokeStyle'[last'.who] = strokeStyle[last'.who]
          /\ lineWidth'[last'.who] = lineWidth[last'.who]
          /\ history'[last'.who] = history[last'.who]
          /\ canUndo'[last'.who] = canUndo[last'.who]
          /\ pendingImg'[last'.who] = pendingImg[last'.who]]_vars

\* A board that has drawn something has just ignored a message.
C16_Witness ==
  /\ last.op = "ignored"
  /\ joined[last.who]
  /\ roomId[last.who] \in Room
  /\ last.who \in rooms[roomId[last.who]]
  /\ canvas[last.who] # Blank
  /\ path[last.who] # <<>>

\* The stroke messages among those client c has emitted and the server has
\* not yet handled: a contiguous run of what c emitted, in emission order.
StrokeRun(c) ==
  LET IsStroke(m) == m.ev \in StrokeEvents
      run == SelectSeq(inbox[c], IsStroke)
  IN [i \in 1..Len(run) |-> run[i].ev]
\* What may follow a stroke message in (start-draw drawing* end-draw)*.
MayFollow(ev) ==
  IF ev = "end-draw" THEN {"start-draw"} ELSE {"drawing", "end-draw"}

\* C17: the stroke messages a client emits match
\* (start-draw drawing* end-draw)*: in every run of consecutive stroke
\* messages of one client, a start-draw or drawing is followed by a drawing
\* or an end-draw, and an end-draw by a start-draw.
C17_StrokeGrammar ==
  \A c \in Client : \A i \in 1..(Len(StrokeRun(c)) - 1) :
    StrokeRun(c)[i + 1] \in MayFollow(StrokeRun(c)[i])

\* The stroke, text and clear messages the step makes client c emit.
EmittedBy(c) ==
  IF c \in connected
    THEN SubSeq(inbox'[c], Len(inbox[c]) + 1, Len(inbox'[c]))
    ELSE SubSeq(sendBuffer'[c], Len(sendBuffer[c]) + 1, Len(sendBuffer'[c]))
PointerEnds == last'.op \in {"stop", "stop-idle"}

\* C18: a pointerup, pointerleave or pointercancel while a stroke or shape
\* is in progress keeps what was drawn, emits exactly one end-draw for the
\* board's room, pushes exactly one snapshot (of the canvas as drawn) and
\* leaves the board idle; while the board is idle it emits nothing and leaves
\* the history and the canvas as they are.
C18_FirstReleaseFinalizes ==
  [][PointerEnds =>
       LET c == last'.who
       IN IF isDrawing[c]
            THEN /\ ~isDrawing'[c]
                 /\ canvas'[c] = canvas[c]
                 /\ Len(EmittedBy(c)) = 1
                 /\ EmittedBy(c)[1].ev = "end-draw"
                 /\ EmittedBy(c)[1].data.roomId = roomId[c]
                 /\ pushed'[c] = Append(pushed[c], canvas[c])
                 /\ history'[c] = SaveCanvas(history[c], canvas[c])
            ELSE /\ ~isDrawing'[c]
                 /\ EmittedBy(c) = <<>>
                 /\ history'[c] = history[c]
                 /\ pushed'[c] = pushed[c]
                 /\ canvas'[c] = canvas[c]]_vars

\* A drawn stroke has been finalized by one release, its end-draw is still
\* on the way to the server, and a second release has found the board idle.
C18_Witness ==
  /\ last.op = "stop-idle"
  /\ last.who = Board
  /\ canvas[Board] # Blank
  /\ history[Board] # <<>>
  /\ history[Board][Len(history[Board])] = canvas[Board]
  /\ inbox[Board] # <<>>
  /\ inbox[Board][Len(inbox[Board])].ev = "end-draw"

C21_TextCommit ==
  [][/\ (last'.op = "enter") =>
          LET c == last'.who
          IN /\ Len(EmittedBy(c)) = 1
             /\ EmittedBy(c)[1].ev = "draw-text"
             /\ EmittedBy(c)[1].data.text = textInput[c]
             /\ EmittedBy(c)[1].data.x = textPosition[c][1]
             /\ EmittedBy(c)[1].data.y = textPosition[c][2]
             /\ EmittedBy(c)[1].data.color = color[c]
             /\ EmittedBy(c)[1].data.fontSize = 4 * size[c]
             /\ pushed'[c] = Append(pushed[c], canvas'[c])
     /\ (last'.op = "tool" /\ isPlacingText[last'.who]) =>
          LET c == last'.who
          IN /\ ~isPlacingText'[c]
             /\ EmittedBy(c) = <<>>
             /\ pushed'[c] = pushed[c]
             /\ history'[c] = history[c]
             /\ canvas'[c] = canvas[c]]_vars

\* C22: when nothing is in flight or in progress and no board has undone
\* anything, every rectangle, circle or arrow on the canvas of one board of
\* the room is on the canvas of every other board of the room, with the same
\* anchor, end point, colour and width.
C22_ShapeOnEveryBoard ==
  \A a \in Boards : \A b \in Boards :
    (/\ Settled
     /\ JoinedAs(a, HomeRoom) /\ JoinedAs(b, HomeRoom)
     /\ pops[a] = 0 /\ pops[b] = 0)
      => \A ink \in canvas[a] :
           ink.k \in ShapeTools => ink \in canvas[b]

\* C23: a client that receives a start-draw, drawing, end-draw, draw-text
\* or clear emits nothing while its listener runs, whether the listener
\* applies the message or returns early; and the server, handling one
\* message, queues at most one message for each connection and none for the
\* connection the message came from.
C23_NoReEmit ==
  [][/\ ListenerRan =>
          \A c \in Client : inbox'[c] = inbox[c] /\ sendBuffer'[c] = sendBuffer[c]
     /\ (last'.op = "handle") =>
          /\ \A d \in Client : Len(outbox'[d]) <= Len(outbox[d]) + 1
          /\ last'.msg.ev \in StrokeEvents \cup {"draw-text", "clear"} =>
               Len(outbox'[last'.who]) <= Len(outbox[last'.who])]_vars

\* The board, a member of the room next to the raw client, has just applied
\* a draw-text that the raw client sent.
C23_Witness ==
  /\ last.op = "remote-text"
  /\ last.who = Board
  /\ Board \in rooms[roomId[Board]]
  /\ \E ink \in canvas[Board] : ink.k = "text" /\ ink.text = "yo"
  /\ inbox[Board] = <<>>

\* C24: a client that receives a start-draw, drawing, end-draw, draw-text
\* or clear keeps its undo history as it is: no snapshot is pushed and none
\* is shifted out.
C24_RemoteKeepsHistory ==
  [][ListenerRan =>
       /\ history'[last'.who] = history[last'.who]
       /\ pushed'[last'.who] = pushed[last'.who]
       /\ canUndo'[last'.who] = canUndo[last'.who]]_vars

\* The rooms the server holds connection c in.
RoomsOf(c) == {k \in RoomKey : c \in rooms[k]}

\* C25: at every moment each connection is a member of at most one room.
C25_AtMostOneRoom == \A c \in Client : Cardinality(RoomsOf(c)) <= 1

\* C26: a browser that has joined and whose socket is connected, with every
\* message it sent handled by the server, is a member of a room it asked to
\* join; in particular after its transport dropped and the socket
\* reconnected.
C26_MemberAfterReconnect ==
  \A c \in Client :
    (/\ joined[c]
     /\ serverUp
     /\ c \in connected
     /\ inbox[c] = <<>>
     /\ sendBuffer[c] = <<>>)
      => RoomsOf(c) # {}

\* C27: every segment on the board's canvas joins two points of the local
\* stroke in the board's colour and width, or two points of the remote
\* stroke in the colour and width of its messages; no segment joins a point
\* of one stroke to a point of the other.
C27_SegmentsWithinOneStroke ==
  \A ink \in canvas[Board] :
    ink.k = "seg" =>
      \/ /\ ink.a \in Pos /\ ink.b \in Pos
         /\ ink.color = color[Board] /\ ink.w = size[Board]
      \/ /\ ink.a \in FarPos /\ ink.b \in FarPos
         /\ ink.color = FarColor /\ ink.w = DrawData(HomeRoom).size

\* The text the raw client's draw-text puts on a canvas.
RemoteInk(c) == {ink \in canvas[c] : ink.k = "text" /\ ink.text = "yo"}

\* C28: the remote text that is on the board's canvas when an undo is made
\* is still on it when the restore started by that undo has completed.
C28_UndoKeepsRemote ==
  [][(/\ last.op = "undo" /\ last.n > 1
      /\ last'.op = "onload" /\ last'.who = last.who
      /\ Len(pendingImg[last.who]) = 1) =>
       RemoteInk(last.who) \subseteq canvas'[last.who]]_vars

\* C29: a pointer move of a local shape drag leaves on the canvas every
\* remote text that was on it, and a pointer move that directly follows an
\* applied clear leaves nothing on the canvas but the shape preview.
C29_DragKeepsRemote ==
  [][(last'.op = "move" /\ tool[last'.who] \in ShapeTools) =>
       LET c == last'.who
       IN /\ RemoteInk(c) \subseteq canvas'[c]
          /\ (last.op = "remote-clear" /\ last.who = c) =>
               \A ink \in canvas'[c] : ink.k = tool[c]]_vars

====
